---- MODULE Spec2Model ----
(***************************************************************************)
(* Model of ensemble/train_ensemble.py: the K-fold training driver         *)
(* train(), the run-directory helper increment_path(), the model factory   *)
(* select_model() and the error-analysis writer save_f1_result().          *)
(*                                                                         *)
(* Text (paths, file names) is a sequence of one-character strings, so     *)
(* that globbing, the regular-expression search and the decimal            *)
(* conversions are computed character by character as Python does.         *)
(***************************************************************************)
EXTENDS Integers, Sequences, FiniteSets, TLC

VARIABLES
    \* -- the file system and the helper under call
    fs,         \* the directory entries that exist (normalised path texts)
    files,      \* the files written: records [dir, name, content]
    probe,      \* the last call of a pure helper: its arguments and outcome
    \* -- train(): position in the nested loops
    pc,         \* where train() stands
    args,       \* the run's settings and the loaders' lengths
    fold,       \* the fold index i of `for i in range(5)`
    epoch,      \* epoch index of `for epoch in range(args.epochs)`
    idx,        \* training batches consumed in this epoch
    vbatches,   \* validation batches consumed in this epoch
    \* -- train(): per-fold objects
    save_dir,   \* the fold's output directory
    weights,    \* model.state_dict(): which optimiser step produced it
    transform,  \* dataset.transform, shared by train_set and val_set
    lastBatch,  \* the batch last produced by a loader and its transform
    loss_value, \* running sum of loss.item()
    matches,    \* running sum of correct predictions
    trainOuts,  \* the per-batch results kept while an epoch trains, in order
    logged,     \* the last Train/loss, Train/accuracy scalars written
    logSteps,   \* the global steps at which train scalars were written
    valLog,     \* per fold, the epochs at which Val scalars were written
    best_f1,    \* best validation macro-F1 of the fold so far
    f1Hist      \* the fold's validation macro-F1 values, epoch by epoch

trainVars == <<pc, args, fold, epoch, idx, vbatches, save_dir, weights, transform,
               lastBatch, loss_value, matches, trainOuts, logged, logSteps,
               valLog, best_f1, f1Hist>>

vars == <<fs, files, probe, trainVars>>

(***************************************************************************)
(* Bounds of the model.                                                    *)
(***************************************************************************)
MaxSuffix == 2      \* numbered siblings <base>0 .. <base>MaxSuffix may pre-exist

(***************************************************************************)
(* Text helpers.                                                           *)
(***************************************************************************)
Digits == <<"0", "1", "2", "3", "4", "5", "6", "7", "8", "9">>

IsDigit(c) == \E k \in 1..10 : Digits[k] = c

DigitVal(c) == (CHOOSE k \in 1..10 : Digits[k] = c) - 1

\* int(s) for a non-empty text of decimal digits
RECURSIVE ToInt(_)
ToInt(s) ==
    IF Len(s) = 0 THEN 0
    ELSE 10 * ToInt(SubSeq(s, 1, Len(s) - 1)) + DigitVal(s[Len(s)])

\* f"{n}" for n >= 0
RECURSIVE ToStr(_)
ToStr(n) ==
    IF n < 10 THEN <<Digits[n + 1]>>
    ELSE ToStr(n \div 10) \o <<Digits[(n % 10) + 1]>>

SetMax(S) == CHOOSE x \in S : \A y \in S : y <= x

IsPrefix(p, s) == Len(p) <= Len(s) /\ SubSeq(s, 1, Len(p)) = p

(***************************************************************************)
(* pathlib.Path(path) and str(path): the text is split at "/", empty and   *)
(* "." components are dropped and the rest is joined again.                *)
(***************************************************************************)
RECURSIVE Parts(_)
Parts(s) ==
    IF s = <<>> THEN << <<>> >>
    ELSE LET rest == Parts(Tail(s))
         IN  IF Head(s) = "/" THEN << <<>> >> \o rest
             ELSE << <<Head(s)>> \o Head(rest) >> \o Tail(rest)

Components(s) == SelectSeq(Parts(s), LAMBDA c : c # <<>> /\ c # <<".">>)

RECURSIVE Join(_)
Join(cs) ==
    IF Len(cs) = 0 THEN <<>>
    ELSE IF Len(cs) = 1 THEN cs[1]
    ELSE cs[1] \o <<"/">> \o Join(Tail(cs))

PathStr(s) ==
    LET cs  == Components(s)
        abs == Len(s) > 0 /\ s[1] = "/"
    IN  IF abs THEN <<"/">> \o Join(cs)
        ELSE IF Len(cs) = 0 THEN <<".">>
        ELSE Join(cs)

\* Path.name: the final component
PathName(s) ==
    LET cs == Components(s) IN IF Len(cs) = 0 THEN <<>> ELSE cs[Len(cs)]

\* Path.stem: the final component without its last suffix
Stem(s) ==
    LET name == PathName(s)
        dots == {k \in 1..Len(name) : name[k] = "."}
        i    == IF dots = {} THEN 0 ELSE SetMax(dots)
    IN  IF 1 < i /\ i < Len(name) THEN SubSeq(name, 1, i - 1) ELSE name

\* Path.exists()
exists(fsys, p) == p \in fsys

\* glob.glob(f"{path}*"): the entries of the parent directory whose name
\* starts with the last component of path
Glob(fsys, p) ==
    {d \in fsys : /\ IsPrefix(p, d)
                  /\ \A k \in (Len(p) + 1)..Len(d) : d[k] # "/"}

(***************************************************************************)
(* re.search(rf"%s(\d+)" % stem, d): the leftmost place of the whole text  *)
(* d where the pattern stem occurs directly followed by a digit; the group *)
(* is the longest run of digits from there.  A "." of the pattern matches  *)
(* any character.  NoMatch stands for None.                                *)
(***************************************************************************)
NoMatch == -1

PatternCharMatches(pat, c) == pat = "." \/ pat = c

MatchesAt(stem, d, k) ==
    /\ k + Len(stem) <= Len(d)
    /\ \A j \in 1..Len(stem) : PatternCharMatches(stem[j], d[k + j - 1])
    /\ IsDigit(d[k + Len(stem)])

\* the leftmost k at or after `from` where the pattern matches, 0 if none
RECURSIVE FirstMatch(_, _, _)
FirstMatch(stem, d, from) ==
    IF from > Len(d) THEN 0
    ELSE IF MatchesAt(stem, d, from) THEN from
    ELSE FirstMatch(stem, d, from + 1)

\* the last place of the run of digits that starts at `from`
RECURSIVE DigitRunEnd(_, _)
DigitRunEnd(d, from) ==
    IF from < Len(d) /\ IsDigit(d[from + 1]) THEN DigitRunEnd(d, from + 1)
    ELSE from

GroupAt(stem, d, k) ==
    ToInt(SubSeq(d, k + Len(stem), DigitRunEnd(d, k + Len(stem))))

ReSearch(stem, d) ==
    IF FirstMatch(stem, d, 1) = 0 THEN NoMatch
    ELSE GroupAt(stem, d, FirstMatch(stem, d, 1))

(***************************************************************************)
(* increment_path(path, exist_ok)                                          *)
(***************************************************************************)
\* lines 130-134: the next free number appended to the path
Incremented(fsys, p) ==
    LET dirs == Glob(fsys, p)
        nums == {ReSearch(Stem(p), d) : d \in dirs} \ {NoMatch}
        n    == IF nums # {} THEN SetMax(nums) + 1 ELSE 2
    IN  p \o ToStr(n)

\* a variant that does not look at exist_ok
increment_path_IgnoresExistOk(fsys, path, exist_ok) ==
    IF ~exists(fsys, PathStr(path)) THEN PathStr(path)
    ELSE Incremented(fsys, PathStr(path))

increment_path(fsys, path, exist_ok) ==
    IF (exists(fsys, PathStr(path)) /\ exist_ok) \/ ~exists(fsys, PathStr(path))
    THEN PathStr(path)
    ELSE Incremented(fsys, PathStr(path))

(***************************************************************************)
(* Files.  A file is a record [dir, name, content]; writing replaces the   *)
(* file of the same directory and name.                                    *)
(***************************************************************************)
Absent == [kind |-> "absent"]

WriteFile(fset, dir, name, content) ==
    {f \in fset : ~(f.dir = dir /\ f.name = name)}
        \cup {[dir |-> dir, name |-> name, content |-> content]}

ReadFile(fset, dir, name) ==
    IF \E f \in fset : f.dir = dir /\ f.name = name
    THEN (CHOOSE f \in fset : f.dir = dir /\ f.name = name).content
    ELSE Absent

(***************************************************************************)
(* select_model(model, num_classes).  The local model_ is bound only in a  *)
(* branch that is taken; `return model_` reads it.  Reading a local that   *)
(* was never bound raises UnboundLocalError.  A model is described by its  *)
(* architecture and the number of logits it emits: resnet18 keeps its own  *)
(* 1000-way `fc` head, the new layer is stored as an unused `classifier`.  *)
(***************************************************************************)
NumClasses == 18
ImageNetClasses == 1000

Unbound == [kind |-> "unbound"]

PyNone == [kind |-> "None"]

Returns(v) == [outcome |-> "return", value |-> v]

Raises(exc) == [outcome |-> "raise", exc |-> exc]

Net(arch, logits) == [kind |-> "model", arch |-> arch, logits |-> logits]

KnownModels == {"resnet18", "densenet161", "shufflenet", "efficientnet"}

\* the if/elif chain of lines 105-115, entered with model_ in state `unset`
Branches(model, num_classes, unset) ==
    IF model = "resnet18" THEN Net("resnet18", ImageNetClasses)
    ELSE IF model = "densenet161" THEN Net("densenet161", num_classes)
    ELSE IF model = "shufflenet" THEN Net("shufflenet_v2_x1_0", num_classes)
    ELSE IF model = "efficientnet" THEN Net("efficientnet-b0", num_classes)
    ELSE unset

\* line 116: `return model_`
ReturnLocal(model_) ==
    IF model_ = Unbound THEN Raises("UnboundLocalError") ELSE Returns(model_)

\* a variant that starts with `model_ = None`
select_model_DefaultNone(model, num_classes) ==
    ReturnLocal(Branches(model, num_classes, PyNone))

select_model(model, num_classes) ==
    ReturnLocal(Branches(model, num_classes, Unbound))

(***************************************************************************)
(* Floating point.  A score in [0, 1] is the integer count of its 2^-30    *)
(* steps (One is 1.0).  numpy.float32 keeps F32Bits significant bits and   *)
(* rounds to nearest, ties to even.                                        *)
(***************************************************************************)
F32Bits == 24

One == 2^30

TopBit(v) == CHOOSE e \in 0..30 : 2^e <= v /\ (e = 30 \/ v < 2^(e + 1))

Cast32(v) ==
    IF v = 0 \/ TopBit(v) < F32Bits THEN v
    ELSE LET q    == 2^(TopBit(v) - F32Bits + 1)
             r    == v % q
             down == v - r
         IN  IF 2 * r < q THEN down
             ELSE IF 2 * r > q THEN down + q
             ELSE IF (down \div q) % 2 = 0 THEN down
             ELSE down + q

(***************************************************************************)
(* save_f1_result(epoch, report, dir_model, save_best).  The frame is      *)
(* created with dtype float32 and one row per index of np.arange(0, 18);   *)
(* row idx is set from report[str(idx)].  What setting a float64 into the  *)
(* float32 frame does depends on the pandas in use: older releases cast    *)
(* the value to float32, newer ones widen the frame when the cast would    *)
(* lose precision.  to_csv(index=False) writes the rows in index order.    *)
(***************************************************************************)
SetitemModes == {"cast", "widen"}

\* the name save_f1_result writes to
F1FileName(ep, save_best) ==
    IF save_best THEN <<"f1_result.csv">>
    ELSE <<"f1_result_epoch_">> \o ToStr(ep) \o <<".csv">>

\* what a frame cell holds after a float64 v is set into it
Stored(v, setitem) == IF setitem = "cast" THEN Cast32(v) ELSE v

\* a variant that sets recall and f1 in the wrong order
save_f1_result_SwappedColumns(ep, report, dir_model, save_best, setitem) ==
    LET index == [k \in 1..NumClasses |-> k - 1]
        df_f1_rslt ==
            [k \in 1..NumClasses |->
                [precision |-> Stored(report[ToStr(index[k])].precision, setitem),
                 recall    |-> Stored(report[ToStr(index[k])].f1_score, setitem),
                 f1        |-> Stored(report[ToStr(index[k])].recall, setitem)]]
    IN  [dir  |-> dir_model,
         name |-> F1FileName(ep, save_best),
         content |-> [kind |-> "f1_table", rows |-> df_f1_rslt]]

save_f1_result(ep, report, dir_model, save_best, setitem) ==
    LET index == [k \in 1..NumClasses |-> k - 1]
        df_f1_rslt ==
            [k \in 1..NumClasses |->
                [precision |-> Stored(report[ToStr(index[k])].precision, setitem),
                 recall    |-> Stored(report[ToStr(index[k])].recall, setitem),
                 f1        |-> Stored(report[ToStr(index[k])].f1_score, setitem)]]
    IN  [dir  |-> dir_model,
         name |-> F1FileName(ep, save_best),
         content |-> [kind |-> "f1_table", rows |-> df_f1_rslt]]

(***************************************************************************)
(* train(data_dir, model_dir, args)                                        *)
(***************************************************************************)
NumFolds == 5           \* for i in range(5)
BatchSize == 64         \* --batch_size

Epochs == 2             \* args.epochs of the runs modelled
TrainBatches == 3       \* len(train_loader) of the runs modelled
ValBatches == 1         \* len(val_loader) of the runs modelled
MaxLogInterval == 2     \* args.log_interval is drawn from 1..MaxLogInterval

\* the levels a validation macro-F1 takes: 0, 1/2 and 1, doubled
F1Scores == {0, 1, 2}

\* what one training batch yields, loss.item() and (preds == labels).sum():
\* a batch with every prediction wrong and one with every prediction right
BatchOutcomes ==
    { [loss |-> 2, matches |-> 0], [loss |-> 1, matches |-> BatchSize] }

\* the runs modelled: os.path.join(model_dir, args.name) and the entries of
\* the model directory when train() is called
TrainStarts ==
    LET ensem == <<".", "/", "m", "/", "e">>       \* ./model/ensem, the defaults
        dotted == <<"m", "/", "v", ".", "0">>      \* --name with a dot in it
        p == PathStr(ensem)
    IN  { [path |-> ensem,  dirs |-> {}],
          [path |-> ensem,  dirs |-> {p, p \o ToStr(MaxSuffix)}],
          [path |-> dotted, dirs |-> {}] }

None == [kind |-> "none"]

\* model.state_dict() after optimiser step `step` of epoch e in fold f
Weights(f, e, step) == [kind |-> "weights", fold |-> f, epoch |-> e, step |-> step]

\* classification_report(...) / the label and prediction arrays of epoch e
Report(f, e) == [kind |-> "report", fold |-> f, epoch |-> e]
ValPred(f, e) == [kind |-> "pred", fold |-> f, epoch |-> e]

\* x / y as Python computes it: the exact quotient, kept as the pair
Quot(x, y) == <<x, y>>

\* dataset.set_transform(t)
set_transform(t) == t

TrainIdle ==
    /\ pc = "idle"
    /\ args = None
    /\ fold = 0 /\ epoch = 0 /\ idx = 0 /\ vbatches = 0
    /\ save_dir = <<>>
    /\ weights = None /\ transform = "none" /\ lastBatch = None
    /\ loss_value = 0 /\ matches = 0 /\ trainOuts = <<>>
    /\ logged = None /\ logSteps = {}
    /\ valLog = [f \in 0..(NumFolds - 1) |-> {}]
    /\ best_f1 = 0 /\ f1Hist = <<>>

InitTrain ==
    /\ \E start \in TrainStarts, li \in 1..MaxLogInterval :
          /\ fs = start.dirs
          /\ args = [path |-> start.path, epochs |-> Epochs,
                     log_interval |-> li, batch_size |-> BatchSize,
                     n_train |-> TrainBatches, n_val |-> ValBatches]
    /\ files = {}
    /\ probe = [fn |-> "none"]
    /\ pc = "fold_start"
    /\ fold = 0 /\ epoch = 0 /\ idx = 0 /\ vbatches = 0
    /\ save_dir = <<>>
    /\ weights = None /\ transform = "none" /\ lastBatch = None
    /\ loss_value = 0 /\ matches = 0 /\ trainOuts = <<>>
    /\ logged = None /\ logSteps = {}
    /\ valLog = [f \in 0..(NumFolds - 1) |-> {}]
    /\ best_f1 = 0 /\ f1Hist = <<>>

\* lines 186-234: the head of the fold loop and the fold's set-up
FoldStart ==
    /\ pc = "fold_start"
    /\ fold < NumFolds
    /\ save_dir' = increment_path(fs, args.path, FALSE)
    /\ fs' = fs \cup {save_dir'}                        \* SummaryWriter(log_dir)
    /\ files' = WriteFile(files, save_dir', <<"config.json">>,
                          [kind |-> "config", fold |-> fold])
    /\ weights' = Weights(fold, -1, 0)                  \* pretrained model
    /\ transform' = "none"                              \* a fresh dataset
    /\ lastBatch' = None
    /\ logged' = None /\ logSteps' = {}                 \* a fresh logger
    /\ best_f1' = 0
    /\ f1Hist' = <<>>
    /\ epoch' = 0
    /\ pc' = "epoch_start"
    /\ UNCHANGED <<probe, args, fold, idx, vbatches, loss_value, matches,
                   trainOuts, valLog>>

\* line 186: range(5) is exhausted, train() returns
Finish ==
    /\ pc = "fold_start"
    /\ fold = NumFolds
    /\ pc' = "done"
    /\ UNCHANGED <<fs, files, probe, args, fold, epoch, idx, vbatches, save_dir,
                   weights, transform, lastBatch, loss_value, matches,
                   trainOuts, logged, logSteps, valLog, best_f1, f1Hist>>

\* lines 237-242: the running sums, the batch lists and the transform at the
\* start of an epoch
BeginEpoch(lv, mt, tr) ==
    /\ loss_value' = lv
    /\ matches' = mt
    /\ trainOuts' = <<>>
    /\ transform' = tr
    /\ idx' = 0
    /\ pc' = "train_batch"
    /\ UNCHANGED <<fs, files, probe, args, fold, epoch, vbatches, save_dir,
                   weights, lastBatch, logged, logSteps, valLog, best_f1,
                   f1Hist>>

\* a variant that leaves the dataset's transform as validation set it
EpochStart_KeepsTransform ==
    /\ pc = "epoch_start"
    /\ epoch < args.epochs
    /\ BeginEpoch(0, 0, transform)

\* a variant that carries the running sums over from the epoch before
EpochStart_KeepsSums ==
    /\ pc = "epoch_start"
    /\ epoch < args.epochs
    /\ BeginEpoch(loss_value, matches, set_transform("train"))

\* lines 235-242: the head of the epoch loop and the start of an epoch
EpochStart ==
    /\ pc = "epoch_start"
    /\ epoch < args.epochs
    /\ BeginEpoch(0, 0, set_transform("train"))

\* line 235: range(args.epochs) is exhausted, the next fold begins
FoldEnd ==
    /\ pc = "epoch_start"
    /\ epoch = args.epochs
    /\ fold' = fold + 1
    /\ pc' = "fold_start"
    /\ UNCHANGED <<fs, files, probe, args, epoch, idx, vbatches, save_dir,
                   weights, transform, lastBatch, loss_value, matches,
                   trainOuts, logged, logSteps, valLog, best_f1, f1Hist>>

\* lines 243-279: one training batch
TrainBatch ==
    /\ pc = "train_batch"
    /\ idx < args.n_train
    /\ lastBatch' = [kind |-> "train", transform |-> transform]
    /\ weights' = Weights(fold, epoch, idx + 1)
    /\ \E out \in BatchOutcomes :
          LET lv == loss_value + out.loss
              mt == matches + out.matches
          IN  /\ trainOuts' = Append(trainOuts, out)
              /\ IF (idx + 1) % args.log_interval = 0
                 THEN /\ logged' =
                           [step |-> epoch * args.n_train + idx,
                            loss |-> Quot(lv, args.log_interval),
                            acc  |-> Quot(Quot(mt, args.batch_size),
                                          args.log_interval)]
                      /\ logSteps' = logSteps \cup {epoch * args.n_train + idx}
                      /\ loss_value' = 0
                      /\ matches' = 0
                 ELSE /\ loss_value' = lv
                      /\ matches' = mt
                      /\ UNCHANGED <<logged, logSteps>>
    /\ idx' = idx + 1
    /\ pc' = IF idx + 1 = args.n_train THEN "val_start" ELSE "train_batch"
    /\ UNCHANGED <<fs, files, probe, args, fold, epoch, vbatches, save_dir,
                   transform, valLog, best_f1, f1Hist>>

\* lines 281-293: scheduler step and the start of validation
ValStart ==
    /\ pc = "val_start"
    /\ transform' = set_transform("val")
    /\ trainOuts' = <<>>
    /\ vbatches' = 0
    /\ pc' = "val_batch"
    /\ UNCHANGED <<fs, files, probe, args, fold, epoch, idx, save_dir, weights,
                   lastBatch, loss_value, matches, logged, logSteps,
                   valLog, best_f1, f1Hist>>

\* lines 294-315: one validation batch
ValBatch ==
    /\ pc = "val_batch"
    /\ vbatches < args.n_val
    /\ lastBatch' = [kind |-> "val", transform |-> transform]
    /\ vbatches' = vbatches + 1
    /\ pc' = IF vbatches + 1 = args.n_val THEN "val_end" ELSE "val_batch"
    /\ UNCHANGED <<fs, files, probe, args, fold, epoch, idx, save_dir, weights,
                   transform, loss_value, matches, trainOuts, logged, logSteps,
                   valLog, best_f1, f1Hist>>

\* lines 323-343: what the end of a validation does with the score val_f1:
\* `improved` is the test of line 323, `save_last` whether line 335 runs and
\* `next_epoch` the epoch the loop goes on with
EndValidation(val_f1, improved, save_last, next_epoch) ==
    /\ f1Hist' = Append(f1Hist, val_f1)
    /\ best_f1' = IF improved THEN val_f1 ELSE best_f1
    /\ files' =
         LET best ==
               IF improved
               THEN WriteFile(
                     WriteFile(
                      WriteFile(files, save_dir, <<"best.pth">>, weights),
                      save_dir, F1FileName(epoch, TRUE), Report(fold, epoch)),
                     save_dir, <<"pred_result.csv">>, ValPred(fold, epoch))
               ELSE files
         IN  IF save_last
             THEN WriteFile(best, save_dir, <<"last.pth">>, weights)
             ELSE best
    /\ valLog' = [valLog EXCEPT ![fold] = @ \cup {epoch}]
    /\ epoch' = next_epoch
    /\ pc' = "epoch_start"
    /\ UNCHANGED <<fs, probe, args, fold, idx, vbatches, save_dir, weights,
                   transform, lastBatch, loss_value, matches, trainOuts,
                   logged, logSteps>>

\* a variant that also saves the best artifacts on a tie
ValEnd_SavesOnTie ==
    /\ pc = "val_end"
    /\ \E val_f1 \in F1Scores :
          EndValidation(val_f1, val_f1 >= best_f1, TRUE, epoch + 1)

\* a variant with line 335 indented into the `if` of line 323
ValEnd_LastOnlyWhenBest ==
    /\ pc = "val_end"
    /\ \E val_f1 \in F1Scores :
          EndValidation(val_f1, val_f1 > best_f1, val_f1 > best_f1, epoch + 1)

\* a variant that gives the fold up after an epoch with an F1 of 0
ValEnd_StopsEarly ==
    /\ pc = "val_end"
    /\ \E val_f1 \in F1Scores :
          EndValidation(val_f1, val_f1 > best_f1, TRUE,
                        IF val_f1 = 0 THEN args.epochs ELSE epoch + 1)

\* lines 317-343: the epoch's scores, the checkpoints and the Val scalars
ValEnd ==
    /\ pc = "val_end"
    /\ \E val_f1 \in F1Scores :
          EndValidation(val_f1, val_f1 > best_f1, TRUE, epoch + 1)

NextTrain ==
    \/ FoldStart
    \/ EpochStart
    \/ TrainBatch
    \/ ValStart
    \/ ValBatch
    \/ ValEnd
    \/ FoldEnd
    \/ Finish

SpecTrain == InitTrain /\ [][NextTrain]_vars

(***************************************************************************)
(* Calls of increment_path on a directory tree.                            *)
(***************************************************************************)
\* os.path.join(model_dir, args.name) for some model directories and names
BasePaths ==
    { <<"m", "/", "e">>,                 \* model/ensem
      <<".", "/", "m", "/", "e">>,       \* ./model/ensem (the defaults)
      <<"m", "/", "v", ".", "0">>,       \* a run name with a dot in it
      <<"e", "7", "/", "e">> }           \* a model directory named like a run

SiblingSuffixes ==
    {ToStr(n) : n \in 0..MaxSuffix} \cup { <<"8">>, <<"9">> }

Entries(path) ==
    {PathStr(path)} \cup {PathStr(path) \o s : s \in SiblingSuffixes}

NoCall == [fn |-> "none"]

InitPath ==
    /\ \E path \in BasePaths : fs \in SUBSET Entries(path)
    /\ files = {}
    /\ probe = NoCall
    /\ TrainIdle

\* lines 119-134: the call reads the directory and writes nothing
CallIncrementPath ==
    /\ probe = NoCall
    /\ \E path \in BasePaths, exist_ok \in BOOLEAN :
          /\ probe' = [fn |-> "increment_path", path |-> path,
                       exist_ok |-> exist_ok,
                       result |-> increment_path(fs, path, exist_ok)]
    /\ UNCHANGED <<fs, files, trainVars>>

NextPath == CallIncrementPath

SpecPath == InitPath /\ [][NextPath]_vars

(***************************************************************************)
(* Calls of select_model.                                                  *)
(***************************************************************************)
ModelNames ==
    KnownModels \cup {"resnet50", "EfficientNet", ""}

InitSelect ==
    /\ fs = {}
    /\ files = {}
    /\ probe = NoCall
    /\ TrainIdle

CallSelectModel ==
    /\ probe = NoCall
    /\ \E model \in ModelNames, num_classes \in 1..NumClasses :
          probe' = [fn |-> "select_model", model |-> model,
                    num_classes |-> num_classes,
                    result |-> select_model(model, num_classes)]
    /\ UNCHANGED <<fs, files, trainVars>>

NextSelect == CallSelectModel

SpecSelect == InitSelect /\ [][NextSelect]_vars

(***************************************************************************)
(* Calls of save_f1_result on synthetic classification reports.            *)
(***************************************************************************)
\* scores put in one class of the report: 0, 1, the double nearest 2/3
\* (up to the grid) and 1/2 + 2^-30; the last two are no float32 values
ScoreSamples == {0, One, (One \div 3) * 2, (One \div 2) + 1}

ClassKeys == {ToStr(k) : k \in 0..(NumClasses - 1)}

ExtraKeys == { <<"accuracy">>, <<"macro avg">>, <<"weighted avg">> }

\* every class has scores of its own, all of them float32 values
GridScores(k) ==
    [precision |-> k * 2^20, recall |-> k * 2^20 + 2^10,
     f1_score |-> k * 2^20 + 2^11]

SyntheticReport(c, scores) ==
    [key \in ClassKeys \cup ExtraKeys |->
        IF key = ToStr(c) THEN scores
        ELSE IF key \in ClassKeys THEN GridScores(ToInt(key))
        ELSE [precision |-> One, recall |-> One, f1_score |-> One]]

ReportDir == <<"m", "/", "e">>

EpochSamples == {0, 12}

\* the class whose scores are drawn: the first, one with a two-digit key, the last
ClassSamples == {0, 9, NumClasses - 1}

InitF1 ==
    /\ fs = {ReportDir}
    /\ files = {}
    /\ probe = NoCall
    /\ TrainIdle

\* lines 43-56: the call writes one file into dir_model
CallSaveF1 ==
    /\ probe = NoCall
    /\ \E c \in ClassSamples, p \in ScoreSamples, r \in ScoreSamples,
          f \in ScoreSamples, ep \in EpochSamples, save_best \in BOOLEAN,
          setitem \in SetitemModes :
          LET report == SyntheticReport(c, [precision |-> p, recall |-> r,
                                            f1_score |-> f])
              out    == save_f1_result(ep, report, ReportDir, save_best, setitem)
          IN  /\ probe' = [fn |-> "save_f1_result", epoch |-> ep,
                           report |-> report, dir_model |-> ReportDir,
                           save_best |-> save_best, setitem |-> setitem]
              /\ files' = WriteFile(files, out.dir, out.name, out.content)
    /\ UNCHANGED <<fs, trainVars>>

NextF1 == CallSaveF1

SpecF1 == InitF1 /\ [][NextF1]_vars

(***************************************************************************)
(* Properties of train(), checked under SpecTrain.                         *)
(***************************************************************************)
BestFiles == { <<"best.pth">>, <<"f1_result.csv">>, <<"pred_result.csv">> }

AfterValidation == pc = "epoch_start" /\ epoch > 0

MaxF1Seen == SetMax({f1Hist[k] : k \in 1..Len(f1Hist)})

BestHoldsEpoch(e) ==
    /\ ReadFile(files, save_dir, <<"best.pth">>) = Weights(fold, e, args.n_train)
    /\ ReadFile(files, save_dir, <<"f1_result.csv">>) = Report(fold, e)
    /\ ReadFile(files, save_dir, <<"pred_result.csv">>) = ValPred(fold, e)

WrittenByFold(content, f) == content # Absent /\ content.fold = f

\* C1 as stated: after the validation of epoch e the best artifacts hold the
\* weights and reports of an epoch whose F1 is the maximum among epochs 0..e
\* of the fold.
C1_BestIsMaxEpoch ==
    AfterValidation =>
        \E e \in 0..(epoch - 1) :
            f1Hist[e + 1] = MaxF1Seen /\ BestHoldsEpoch(e)

\* C1 amended: once some epoch 0..e of the fold scored an F1 above 0, the best
\* artifacts hold the weights and reports of the earliest epoch that reached
\* the maximum F1 among epochs 0..e; while every F1 of the fold is 0 the fold
\* has written no best artifact.
C1_BestIsFirstPositiveMax ==
    AfterValidation =>
        IF MaxF1Seen > 0
        THEN LET first == CHOOSE e \in 0..(epoch - 1) :
                             /\ f1Hist[e + 1] = MaxF1Seen
                             /\ \A d \in 0..(e - 1) : f1Hist[d + 1] < MaxF1Seen
             IN  BestHoldsEpoch(first)
        ELSE \A name \in BestFiles :
                ~WrittenByFold(ReadFile(files, save_dir, name), fold)

\* a later epoch scored lower and the best artifacts stayed those of epoch 0
C1_Witness ==
    /\ AfterValidation
    /\ epoch = 2
    /\ f1Hist[1] > 0 /\ f1Hist[2] < f1Hist[1]
    /\ BestHoldsEpoch(0)

\* C2: after the validation of epoch e, last.pth in the fold's directory holds
\* the weights of epoch e, whether or not epoch e set a new best F1.
C2_LastHoldsCurrentEpoch ==
    AfterValidation =>
        ReadFile(files, save_dir, <<"last.pth">>)
            = Weights(fold, epoch - 1, args.n_train)

\* epoch 1 did not improve on epoch 0: best.pth is epoch 0's, last.pth epoch 1's
C2_Witness ==
    /\ AfterValidation
    /\ epoch = 2
    /\ ReadFile(files, save_dir, <<"best.pth">>) = Weights(fold, 0, args.n_train)
    /\ ReadFile(files, save_dir, <<"last.pth">>) = Weights(fold, 1, args.n_train)

\* the order of the phases and the counts: validation of an epoch starts
\* only after its last training batch, training of an epoch only after every
\* earlier epoch of the fold was validated, and train() is done only after
\* 5 folds of args.epochs validated epochs each.
C7_Order ==
    /\ pc \in {"val_start", "val_batch", "val_end"} =>
          /\ idx = args.n_train
          /\ weights = Weights(fold, epoch, args.n_train)
          /\ valLog[fold] = 0..(epoch - 1)
    /\ pc = "train_batch" =>
          /\ valLog[fold] = 0..(epoch - 1)
          /\ epoch > 0 => vbatches = args.n_val
    /\ pc = "done" =>
          /\ fold = NumFolds
          /\ \A f \in 0..(NumFolds - 1) : valLog[f] = 0..(args.epochs - 1)

\* the number of steps train() has taken when it stands at pc: one per loop
\* head, per batch and per end of validation
StepsPerEpoch == args.n_train + args.n_val + 3

StepsPerFold == args.epochs * StepsPerEpoch + 2

StepsTaken ==
    IF pc = "done" THEN NumFolds * StepsPerFold + 1
    ELSE IF pc = "fold_start" THEN fold * StepsPerFold
    ELSE fold * StepsPerFold + 1 + epoch * StepsPerEpoch
           + (IF pc = "epoch_start" THEN 0
              ELSE IF pc = "train_batch" THEN 1 + idx
              ELSE IF pc = "val_start" THEN 1 + args.n_train
              ELSE IF pc = "val_batch" THEN 2 + args.n_train + vbatches
              ELSE 2 + args.n_train + args.n_val)

\* train() is not stuck: at the head of the fold loop the next step is
\* FoldStart or Finish, which only assign once `fold` is in range; elsewhere
\* some action must be enabled
C7_CanStep ==
    \/ pc = "done"
    \/ pc = "fold_start" /\ fold \in 0..NumFolds
    \/ ENABLED (EpochStart \/ TrainBatch \/ ValStart \/ ValBatch \/ ValEnd
                  \/ FoldEnd)

\* C7: train() runs 5 folds of args.epochs epochs, each one training phase
\* over all training batches followed by one validation phase over all
\* validation batches, whatever the validation scores are, and then
\* terminates: the phases come in order, every step is the next one of that
\* fixed schedule, and train() never stops before the schedule's end.
C7_FiveFoldsThenDone ==
    /\ [](C7_Order /\ C7_CanStep)
    /\ [][StepsTaken' = StepsTaken + 1]_vars

\* the run is over although a fold's epochs all scored an F1 of 0
C7_Witness ==
    /\ pc = "done"
    /\ best_f1 = 0
    /\ \A f \in 0..(NumFolds - 1) : valLog[f] = 0..(args.epochs - 1)

\* C8: every training batch is produced under the training transform and
\* every validation batch under the validation transform, in every epoch.
C8_TransformMatchesPhase ==
    /\ lastBatch # None => lastBatch.transform = lastBatch.kind
    /\ pc = "train_batch" => transform = "train"
    /\ pc = "val_batch" => transform = "val"

\* a training batch of a later epoch, produced after a validation phase
C8_Witness ==
    /\ pc = "train_batch"
    /\ epoch > 0
    /\ idx > 0
    /\ lastBatch = [kind |-> "train", transform |-> "train"]

RECURSIVE SumLoss(_, _, _)
SumLoss(outs, a, b) ==
    IF a > b THEN 0 ELSE outs[a].loss + SumLoss(outs, a + 1, b)

RECURSIVE SumMatches(_, _, _)
SumMatches(outs, a, b) ==
    IF a > b THEN 0 ELSE outs[a].matches + SumMatches(outs, a + 1, b)

\* the global steps of the batches of epochs 0..e - 1 and of the first n
\* batches of epoch e whose 1-based index is a multiple of log_interval
LogStepsUpTo(e, n) ==
    {d * args.n_train + k - 1 :
        d \in 0..(e - 1),
        k \in {x \in 1..args.n_train : x % args.log_interval = 0}}
      \cup {e * args.n_train + k - 1 :
              k \in {x \in 1..n : x % args.log_interval = 0}}

\* C9: while an epoch trains, scalars have been logged at exactly the batches
\* whose 1-based index is a multiple of log_interval; the running sums hold
\* exactly the batches of this epoch since the last log; and a value logged
\* at batch idx is the sum over batches idx - log_interval + 1 .. idx of this
\* epoch, divided by log_interval (and by the batch size for the accuracy).
C9_LogEveryInterval ==
    pc \in {"train_batch", "val_start"} =>
        LET L    == args.log_interval
            from == idx - (idx % L) + 1
        IN  /\ Len(trainOuts) = idx
            /\ logSteps = LogStepsUpTo(epoch, idx)
            /\ loss_value = SumLoss(trainOuts, from, idx)
            /\ matches = SumMatches(trainOuts, from, idx)
            /\ (idx > 0 /\ idx % L = 0) =>
                  logged =
                    [step |-> epoch * args.n_train + idx - 1,
                     loss |-> Quot(SumLoss(trainOuts, idx - L + 1, idx), L),
                     acc  |-> Quot(Quot(SumMatches(trainOuts, idx - L + 1, idx),
                                        args.batch_size), L)]

\* a log in the second epoch, after an epoch that ended between two logs
C9_Witness ==
    /\ pc = "train_batch"
    /\ epoch = 1
    /\ args.log_interval = 2
    /\ args.n_train % 2 = 1
    /\ idx = 2
    /\ logged # None /\ logged.step = args.n_train + 1

\* C10: the directory a fold gets from increment_path is none that existed
\* before, be it from an earlier fold of the run or from before the run.
C10_FreshDirPerFold ==
    [][(pc = "fold_start" /\ pc' = "epoch_start") => save_dir' \notin fs]_vars

(***************************************************************************)
(* Properties of increment_path, checked under SpecPath.                   *)
(***************************************************************************)
AllDigits(s) == Len(s) > 0 /\ \A k \in 1..Len(s) : IsDigit(s[k])

\* the numbers n for which the sibling <p><n> exists
NumberedSiblings(fsys, p) ==
    {ToInt(SubSeq(d, Len(p) + 1, Len(d))) :
        d \in {x \in fsys : IsPrefix(p, x)
                            /\ AllDigits(SubSeq(x, Len(p) + 1, Len(x)))}}

\* C3: called without exist_ok on a path that exists, increment_path returns
\* the path followed by one more than the largest number among its numbered
\* siblings, or by 2 when it has none.
C3_NextSuffix ==
    (/\ probe.fn = "increment_path"
     /\ ~probe.exist_ok
     /\ PathStr(probe.path) \in fs)
    => LET p    == PathStr(probe.path)
           nums == NumberedSiblings(fs, p)
           n    == IF nums = {} THEN 2 ELSE SetMax(nums) + 1
       IN  probe.result = p \o ToStr(n)

\* what a call returns when the path does not exist or exist_ok is set: the
\* path it was given (the same components; the very same text when the text
\* is already in pathlib's form)
C4_Returned ==
    (/\ probe.fn = "increment_path"
     /\ (probe.exist_ok \/ PathStr(probe.path) \notin fs))
    => /\ Components(probe.result) = Components(probe.path)
       /\ probe.path = PathStr(probe.path) => probe.result = probe.path

\* C4: when the path does not exist, or exist_ok is set, increment_path
\* returns the path unchanged, whatever numbered siblings exist, and no call
\* changes the directory tree or any file.
C4_UnchangedPathNoWrite ==
    []C4_Returned /\ [][probe' # probe => (fs' = fs /\ files' = files)]_vars

\* exist_ok is set, the path exists and so does a numbered sibling
C4_Witness ==
    /\ probe.fn = "increment_path"
    /\ probe.exist_ok
    /\ PathStr(probe.path) \in fs
    /\ NumberedSiblings(fs, PathStr(probe.path)) # {}
    /\ probe.result = PathStr(probe.path)

(***************************************************************************)
(* Properties of select_model, checked under SpecSelect.                   *)
(***************************************************************************)
\* C5 as stated: with an identifier other than the four known ones
\* select_model raises nothing and returns None.
C5_ReturnsNone ==
    (probe.fn = "select_model" /\ probe.model \notin KnownModels)
    => probe.result = Returns(PyNone)

\* C5 amended: with an identifier other than the four known ones no branch is
\* taken and select_model itself raises UnboundLocalError at its return
\* statement; it returns nothing.
C5_RaisesUnboundLocal ==
    (probe.fn = "select_model" /\ probe.model \notin KnownModels)
    => probe.result = Raises("UnboundLocalError")

C5_Witness ==
    /\ probe.fn = "select_model"
    /\ probe.model = "resnet50"
    /\ probe.result.outcome = "raise"

(***************************************************************************)
(* Properties of save_f1_result, checked under SpecF1.                     *)
(***************************************************************************)
WrittenName ==
    IF probe.save_best THEN <<"f1_result.csv">>
    ELSE <<"f1_result_epoch_">> \o ToStr(probe.epoch) \o <<".csv">>

WrittenTable == ReadFile(files, probe.dir_model, WrittenName)

TableShape ==
    /\ files = {[dir |-> probe.dir_model, name |-> WrittenName,
                 content |-> WrittenTable]}
    /\ WrittenTable.kind = "f1_table"
    /\ DOMAIN WrittenTable.rows = 1..18

\* C6 as stated: the table has 18 rows in class order whose precision, recall
\* and f1 equal the report's values of that class, and it goes to
\* f1_result.csv with save_best and to f1_result_epoch_<epoch>.csv without.
C6_TableEqualsReport ==
    probe.fn = "save_f1_result" =>
        /\ TableShape
        /\ \A k \in 0..17 :
              LET row == WrittenTable.rows[k + 1]
                  cls == probe.report[ToStr(k)]
              IN  /\ row.precision = cls.precision
                  /\ row.recall = cls.recall
                  /\ row.f1 = cls.f1_score

SinglePrecision(x, v) == x = v \/ x = Cast32(v)

\* C6 amended: as stated, except that a value of the table equals the
\* report's value only up to single precision: it is the report's value
\* itself or that value rounded to float32 (hence the value itself whenever
\* it is a float32 value).
C6_TableEqualsReportInFloat32 ==
    probe.fn = "save_f1_result" =>
        /\ TableShape
        /\ \A k \in 0..17 :
              LET row == WrittenTable.rows[k + 1]
                  cls == probe.report[ToStr(k)]
              IN  /\ SinglePrecision(row.precision, cls.precision)
                  /\ SinglePrecision(row.recall, cls.recall)
                  /\ SinglePrecision(row.f1, cls.f1_score)

\* a report whose class 9 has a recall that is no float32 value, written to
\* the per-epoch file with the value rounded
C6_Witness ==
    /\ probe.fn = "save_f1_result"
    /\ ~probe.save_best
    /\ probe.epoch = 12
    /\ probe.report[<<"9">>].recall = (One \div 3) * 2
    /\ WrittenTable.rows[10].recall # probe.report[<<"9">>].recall
    /\ WrittenTable.rows[10].recall = Cast32(probe.report[<<"9">>].recall)

====
